---- MODULE Spec2Model ----
(***************************************************************************)
(* Model of the ZBProxy management API (src/main.py):                      *)
(*   - the nested-path accessor get_nested_value / set_nested_value,       *)
(*   - the configuration store load_config / save_config and the handlers  *)
(*     get_config_value / update_config_value,                             *)
(*   - the process supervisor get_status / start_zbproxy / stop_zbproxy /  *)
(*     restart_zbproxy over zbproxy_process and process_lock.              *)
(***************************************************************************)
EXTENDS Integers, Sequences, FiniteSets, TLC

VARIABLES
    \* ---- path accessor (SpecPath) ----
    data,        \* the document handed to get_nested_value / set_nested_value
    path,        \* the dotted path string, as a sequence of characters
    value,       \* the value handed to set_nested_value
    phase,       \* which calls have been made on (data, path, value)
    dataBefore,  \* the document before set_nested_value mutated it
    getRes,      \* outcome of the last get_nested_value
    setRes,      \* outcome of the last set_nested_value
    \* ---- configuration store ----
    file,        \* CONFIG_FILE on disk: whether it exists, and its text
    req,         \* per client: where its /config request stands
    \* ---- process supervisor (Spec) ----
    zbproxy_process, \* the tracked Popen object: its pid, 0 for None
    process_lock,    \* the caller holding process_lock, "free" if none
    procs,           \* the host's processes named ZBPROXY_EXECUTABLE, by pid
    nextPid,         \* the pid the next process gets
    spawnAttempts,   \* how often start_zbproxy opened out.log for a spawn
    openLogs,        \* how many out.log handles are open (opened, not closed)
    call,            \* per caller: the lifecycle call in progress, its locals
    ret              \* what the step just taken returned to its caller, if it
                     \* ended a call

pathVars == <<data, path, value, phase, dataBefore, getRes, setRes>>
storeVars == <<file, req>>
supVars == <<zbproxy_process, process_lock, procs, nextPid, spawnAttempts,
             openLogs, call, ret>>
vars == <<pathVars, storeVars, supVars>>

(***************************************************************************)
(* Bounds                                                                  *)
(***************************************************************************)
MaxPathLen == 3
MaxPids == 3
MaxSpawns == 2

(***************************************************************************)
(* JSON documents: tagged values.  An object is a function from keys       *)
(* (strings, here sequences of characters) to documents, an array is a     *)
(* sequence of documents, a scalar carries a number.                       *)
(***************************************************************************)
Sc(n) == [t |-> "scalar", v |-> n]
Ob(f) == [t |-> "dict", v |-> f]
Ar(s) == [t |-> "list", v |-> s]
NoVal == [t |-> "none", v |-> 0]

IsDict(d) == d.t = "dict"
IsList(d) == d.t = "list"

\* Characters of path strings, and the keys of the documents drawn in Init.
\* The key "0" is a sibling no path can name: a numeric segment never
\* addresses an object (main.py 71-77).
Letters == {"a"}
Digits == {"0", "1"}
PathChars == Letters \cup Digits \cup {"."}

DocKeys == {<<"a">>, <<"0">>}
ObjsOver(V) == {Ob(f) : f \in UNION {[K -> V] : K \in SUBSET DocKeys}}
ArrsOver(V) == {Ar(<<>>)} \cup {Ar(<<x>>) : x \in V} \cup {Ar(<<x, y>>) : x \in V, y \in V}
Docs0 == {Sc(1)}
Docs1 == Docs0 \cup ObjsOver(Docs0) \cup ArrsOver(Docs0)
Docs == Docs1 \cup ObjsOver(Docs1) \cup ArrsOver(Docs1)
Values == {Sc(2), Ar(<<>>)}
Paths == UNION {[1..n -> PathChars] : n \in 0..MaxPathLen}

(***************************************************************************)
(* str.split('.'), str.isdigit() and int() on path segments.               *)
(***************************************************************************)
RECURSIVE split(_)
split(s) ==
    IF \A i \in 1..Len(s) : s[i] # "."
    THEN <<s>>
    ELSE LET i == CHOOSE j \in 1..Len(s) :
                      s[j] = "." /\ \A k \in 1..(j - 1) : s[k] # "."
         IN <<SubSeq(s, 1, i - 1)>> \o split(SubSeq(s, i + 1, Len(s)))

isdigit(key) == Len(key) > 0 /\ \A i \in 1..Len(key) : key[i] \in Digits

DigitVal(c) == IF c = "0" THEN 0 ELSE 1

RECURSIVE int(_)
int(key) ==
    IF Len(key) = 0 THEN 0
    ELSE 10 * int(SubSeq(key, 1, Len(key) - 1)) + DigitVal(key[Len(key)])

(***************************************************************************)
(* get_nested_value (main.py 65-83).  A raised HTTPException is an outcome *)
(* with ok = FALSE and the error kind of its detail message.               *)
(***************************************************************************)
GetOk(v) == [ok |-> TRUE, err |-> "none", val |-> v]
GetErr(e) == [ok |-> FALSE, err |-> e, val |-> NoVal]

\* GetWalk testing object membership before the segment's kind
RECURSIVE GetWalk_DictFirst(_, _)
GetWalk_DictFirst(current, keys) ==
    IF keys = <<>> THEN GetOk(current)
    ELSE LET key == Head(keys) IN
         IF IsDict(current) /\ key \in DOMAIN current.v
         THEN GetWalk_DictFirst(current.v[key], Tail(keys))
         ELSE IF isdigit(key)
              THEN IF IsList(current) /\ 0 <= int(key) /\ int(key) < Len(current.v)
                   THEN GetWalk_DictFirst(current.v[int(key) + 1], Tail(keys))
                   ELSE GetErr("InvalidIndex")
              ELSE GetErr("PathNotFound")

RECURSIVE GetWalk(_, _)
GetWalk(current, keys) ==
    IF keys = <<>> THEN GetOk(current)
    ELSE LET key == Head(keys) IN
         IF isdigit(key)
         THEN IF IsList(current) /\ 0 <= int(key) /\ int(key) < Len(current.v)
              THEN GetWalk(current.v[int(key) + 1], Tail(keys))
              ELSE GetErr("InvalidIndex")
         ELSE IF IsDict(current) /\ key \in DOMAIN current.v
              THEN GetWalk(current.v[key], Tail(keys))
              ELSE GetErr("PathNotFound")

get_nested_value(d, p) == GetWalk(d, split(p))

(***************************************************************************)
(* set_nested_value (main.py 85-112).  The code mutates the document in    *)
(* place; the outcome carries the document as it is after the call.        *)
(***************************************************************************)
SetOk(d) == [ok |-> TRUE, err |-> "none", doc |-> d]
SetErr(e, d) == [ok |-> FALSE, err |-> e, doc |-> d]

\* SetLast with the upsert lost: an absent key is silently not written
SetLast_NoUpsert(current, last_key, v) ==
    IF isdigit(last_key)
    THEN IF IsList(current) /\ 0 <= int(last_key) /\ int(last_key) < Len(current.v)
         THEN SetOk(Ar([current.v EXCEPT ![int(last_key) + 1] = v]))
         ELSE SetErr("InvalidIndex", current)
    ELSE IF IsDict(current)
         THEN IF last_key \in DOMAIN current.v
              THEN SetOk(Ob([current.v EXCEPT ![last_key] = v]))
              ELSE SetOk(current)
         ELSE SetErr("InvalidTarget", current)

\* SetLast writing current[last_key - 1]: index 0 lands on the last element
SetLast_OffByOne(current, last_key, v) ==
    IF isdigit(last_key)
    THEN IF IsList(current) /\ 0 <= int(last_key) /\ int(last_key) < Len(current.v)
         THEN SetOk(Ar([current.v EXCEPT
                  ![((int(last_key) - 1) % Len(current.v)) + 1] = v]))
         ELSE SetErr("InvalidIndex", current)
    ELSE IF IsDict(current)
         THEN SetOk(Ob([k \in DOMAIN current.v \cup {last_key} |->
                            IF k = last_key THEN v ELSE current.v[k]]))
         ELSE SetErr("InvalidTarget", current)

\* SetLast assigning before it tests the index: a numeric last segment on an
\* object is written as a key, then reported as an invalid index
SetLast_WriteFirst(current, last_key, v) ==
    IF isdigit(last_key)
    THEN IF IsList(current) /\ 0 <= int(last_key) /\ int(last_key) < Len(current.v)
         THEN SetOk(Ar([current.v EXCEPT ![int(last_key) + 1] = v]))
         ELSE IF IsDict(current)
              THEN SetErr("InvalidIndex",
                          Ob([k \in DOMAIN current.v \cup {last_key} |->
                                 IF k = last_key THEN v ELSE current.v[k]]))
              ELSE SetErr("InvalidIndex", current)
    ELSE IF IsDict(current)
         THEN SetOk(Ob([k \in DOMAIN current.v \cup {last_key} |->
                            IF k = last_key THEN v ELSE current.v[k]]))
         ELSE SetErr("InvalidTarget", current)

\* SetLast appending when the index equals the length of the array
SetLast_Append(current, last_key, v) ==
    IF isdigit(last_key)
    THEN IF IsList(current) /\ 0 <= int(last_key) /\ int(last_key) < Len(current.v)
         THEN SetOk(Ar([current.v EXCEPT ![int(last_key) + 1] = v]))
         ELSE IF IsList(current) /\ int(last_key) = Len(current.v)
              THEN SetOk(Ar(Append(current.v, v)))
              ELSE SetErr("InvalidIndex", current)
    ELSE IF IsDict(current)
         THEN SetOk(Ob([k \in DOMAIN current.v \cup {last_key} |->
                            IF k = last_key THEN v ELSE current.v[k]]))
         ELSE SetErr("InvalidTarget", current)

\* SetLast reporting a parent that is no object as a path that does not exist
SetLast_NotFound(current, last_key, v) ==
    IF isdigit(last_key)
    THEN IF IsList(current) /\ 0 <= int(last_key) /\ int(last_key) < Len(current.v)
         THEN SetOk(Ar([current.v EXCEPT ![int(last_key) + 1] = v]))
         ELSE SetErr("InvalidIndex", current)
    ELSE IF IsDict(current)
         THEN SetOk(Ob([k \in DOMAIN current.v \cup {last_key} |->
                            IF k = last_key THEN v ELSE current.v[k]]))
         ELSE SetErr("PathNotFound", current)

\* SetLast refusing to overwrite a key that is present
SetLast_InsertOnly(current, last_key, v) ==
    IF isdigit(last_key)
    THEN IF IsList(current) /\ 0 <= int(last_key) /\ int(last_key) < Len(current.v)
         THEN SetOk(Ar([current.v EXCEPT ![int(last_key) + 1] = v]))
         ELSE SetErr("InvalidIndex", current)
    ELSE IF IsDict(current) /\ last_key \notin DOMAIN current.v
         THEN SetOk(Ob([k \in DOMAIN current.v \cup {last_key} |->
                            IF k = last_key THEN v ELSE current.v[k]]))
         ELSE SetErr("InvalidTarget", current)

SetLast(current, last_key, v) ==
    IF isdigit(last_key)
    THEN IF IsList(current) /\ 0 <= int(last_key) /\ int(last_key) < Len(current.v)
         THEN SetOk(Ar([current.v EXCEPT ![int(last_key) + 1] = v]))
         ELSE SetErr("InvalidIndex", current)
    ELSE IF IsDict(current)
         THEN SetOk(Ob([k \in DOMAIN current.v \cup {last_key} |->
                            IF k = last_key THEN v ELSE current.v[k]]))
         ELSE SetErr("InvalidTarget", current)

\* SetWalk creating the object an absent intermediate key would name
RECURSIVE SetWalk_Vivify(_, _, _)
SetWalk_Vivify(current, keys, v) ==
    IF Len(keys) = 1 THEN SetLast(current, keys[1], v)
    ELSE LET key == Head(keys) IN
         IF isdigit(key)
         THEN IF IsList(current) /\ 0 <= int(key) /\ int(key) < Len(current.v)
              THEN LET r == SetWalk_Vivify(current.v[int(key) + 1], Tail(keys), v) IN
                   IF r.ok
                   THEN SetOk(Ar([current.v EXCEPT ![int(key) + 1] = r.doc]))
                   ELSE SetErr(r.err, current)
              ELSE SetErr("InvalidIndex", current)
         ELSE IF IsDict(current)
              THEN LET child == IF key \in DOMAIN current.v THEN current.v[key]
                                ELSE Ob(<<>>)
                       r == SetWalk_Vivify(child, Tail(keys), v)
                   IN IF r.ok
                      THEN SetOk(Ob([k \in DOMAIN current.v \cup {key} |->
                                        IF k = key THEN r.doc ELSE current.v[k]]))
                      ELSE SetErr(r.err, current)
              ELSE SetErr("PathNotFound", current)

RECURSIVE SetWalk(_, _, _)
SetWalk(current, keys, v) ==
    IF Len(keys) = 1 THEN SetLast(current, keys[1], v)
    ELSE LET key == Head(keys) IN
         IF isdigit(key)
         THEN IF IsList(current) /\ 0 <= int(key) /\ int(key) < Len(current.v)
              THEN LET r == SetWalk(current.v[int(key) + 1], Tail(keys), v) IN
                   IF r.ok
                   THEN SetOk(Ar([current.v EXCEPT ![int(key) + 1] = r.doc]))
                   ELSE SetErr(r.err, current)
              ELSE SetErr("InvalidIndex", current)
         ELSE IF IsDict(current) /\ key \in DOMAIN current.v
              THEN LET r == SetWalk(current.v[key], Tail(keys), v) IN
                   IF r.ok
                   THEN SetOk(Ob([current.v EXCEPT ![key] = r.doc]))
                   ELSE SetErr(r.err, current)
              ELSE SetErr("PathNotFound", current)

set_nested_value(d, p, v) == SetWalk(d, split(p), v)

(***************************************************************************)
(* json.dump and json.load on the text of CONFIG_FILE, character by        *)
(* character.  Indentation is left out; numbers are single digits; the     *)
(* members of an object are written in one fixed order.                    *)
(***************************************************************************)
DecDigits == <<"0", "1", "2", "3", "4", "5", "6", "7", "8", "9">>
NumStr(n) == <<DecDigits[n + 1]>>
NumVal(c) == (CHOOSE i \in 1..Len(DecDigits) : DecDigits[i] = c) - 1
IsDecDigit(c) == \E i \in 1..Len(DecDigits) : DecDigits[i] = c
EmptyMap == [k \in {} |-> NoVal]

RECURSIVE SetToSeq(_)
SetToSeq(S) ==
    IF S = {} THEN <<>>
    ELSE LET x == CHOOSE y \in S : TRUE IN <<x>> \o SetToSeq(S \ {x})

RECURSIVE dumps(_)
RECURSIVE DumpElems(_)
RECURSIVE DumpMembers(_, _)
dumps(d) ==
    IF d.t = "list" THEN <<"[">> \o DumpElems(d.v) \o <<"]">>
    ELSE IF d.t = "dict"
         THEN <<"{">> \o DumpMembers(d.v, SetToSeq(DOMAIN d.v)) \o <<"}">>
         ELSE NumStr(d.v)
DumpElems(s) ==
    IF s = <<>> THEN <<>>
    ELSE dumps(Head(s)) \o (IF Len(s) > 1 THEN <<",">> \o DumpElems(Tail(s)) ELSE <<>>)
DumpMembers(f, ks) ==
    IF ks = <<>> THEN <<>>
    ELSE <<"\"">> \o Head(ks) \o <<"\"", ":">> \o dumps(f[Head(ks)])
         \o (IF Len(ks) > 1 THEN <<",">> \o DumpMembers(f, Tail(ks)) ELSE <<>>)

POk(v, rest) == [ok |-> TRUE, val |-> v, rest |-> rest]
PFail == [ok |-> FALSE, val |-> NoVal, rest |-> <<>>]

\* the characters up to the closing quote of a string
ParseString(s) ==
    IF \A j \in 1..Len(s) : s[j] # "\"" THEN PFail
    ELSE LET j == CHOOSE i \in 1..Len(s) :
                      s[i] = "\"" /\ \A k \in 1..(i - 1) : s[k] # "\""
         IN POk(SubSeq(s, 1, j - 1), SubSeq(s, j + 1, Len(s)))

RECURSIVE ParseValue(_)
RECURSIVE ParseElems(_, _)
RECURSIVE ParseMembers(_, _)
ParseValue(s) ==
    IF s = <<>> THEN PFail
    ELSE IF Head(s) = "["
         THEN IF Len(s) >= 2 /\ s[2] = "]"
              THEN POk(Ar(<<>>), SubSeq(s, 3, Len(s)))
              ELSE ParseElems(Tail(s), <<>>)
    ELSE IF Head(s) = "{"
         THEN IF Len(s) >= 2 /\ s[2] = "}"
              THEN POk(Ob(EmptyMap), SubSeq(s, 3, Len(s)))
              ELSE ParseMembers(Tail(s), EmptyMap)
    ELSE IF IsDecDigit(Head(s)) THEN POk(Sc(NumVal(Head(s))), Tail(s))
    ELSE PFail
ParseElems(s, acc) ==
    LET r == ParseValue(s) IN
    IF ~r.ok \/ r.rest = <<>> THEN PFail
    ELSE IF Head(r.rest) = "," THEN ParseElems(Tail(r.rest), Append(acc, r.val))
    ELSE IF Head(r.rest) = "]" THEN POk(Ar(Append(acc, r.val)), Tail(r.rest))
    ELSE PFail
ParseMembers(s, f) ==
    IF s = <<>> \/ Head(s) # "\"" THEN PFail
    ELSE LET k == ParseString(Tail(s)) IN
         IF ~k.ok \/ k.rest = <<>> \/ Head(k.rest) # ":" THEN PFail
         ELSE LET r == ParseValue(Tail(k.rest)) IN
              IF ~r.ok \/ r.rest = <<>> THEN PFail
              ELSE LET g == [x \in DOMAIN f \cup {k.val} |->
                                 IF x = k.val THEN r.val ELSE f[x]]
                   IN IF Head(r.rest) = "," THEN ParseMembers(Tail(r.rest), g)
                      ELSE IF Head(r.rest) = "}" THEN POk(Ob(g), Tail(r.rest))
                      ELSE PFail

loads(s) ==
    LET r == ParseValue(s) IN
    IF r.ok /\ r.rest = <<>> THEN GetOk(r.val) ELSE GetErr("ParseError")

(***************************************************************************)
(* load_config (main.py 47-55) and save_config (main.py 57-63).            *)
(* open(CONFIG_FILE, 'w') truncates the file; the text is on disk when     *)
(* the with-block closes the file.  The handle writes from its own offset  *)
(* 0: what another handle wrote beyond the length of the new text stays.   *)
(***************************************************************************)
NoFile == [exists |-> FALSE, text |-> <<>>]
FileOf(text) == [exists |-> TRUE, text |-> text]
Overlay(old, new) == new \o SubSeq(old, Len(new) + 1, Len(old))

load_config(f) == IF ~f.exists THEN GetErr("NotFound") ELSE loads(f.text)

Clients == {"r1", "r2"}
Idle == [pc |-> "idle", op |-> "none", path |-> <<>>, value |-> NoVal,
         config |-> NoVal, res |-> GetErr("none"), wrote |-> FALSE]

\* update_config_value (main.py 142-160), up to the call of save_config: load
\* the document, resolve the path (any failure is swallowed, 148-151), assign.
update_config_value(r, p, v) ==
    /\ req[r].pc \in {"idle", "done"}
    /\ LET c == load_config(file)
           s == set_nested_value(c.val, p, v)
       IN req' = [req EXCEPT ![r] =
              IF ~c.ok
              THEN [pc |-> "done", op |-> "set", path |-> p, value |-> v,
                    config |-> NoVal, res |-> c, wrote |-> FALSE]
              ELSE IF ~s.ok
              THEN [pc |-> "done", op |-> "set", path |-> p, value |-> v,
                    config |-> s.doc, res |-> GetErr(s.err), wrote |-> FALSE]
              ELSE [pc |-> "save_open", op |-> "set", path |-> p, value |-> v,
                    config |-> s.doc, res |-> GetErr("none"), wrote |-> FALSE]]
    /\ UNCHANGED file

\* save_config: open(CONFIG_FILE, 'w') (main.py 60)
save_config_open(r) ==
    /\ req[r].pc = "save_open"
    /\ file' = FileOf(<<>>)
    /\ req' = [req EXCEPT ![r].pc = "save_write"]

\* save_config: json.dump and the close of the file (main.py 61); the
\* handler then returns success (main.py 157-160)
\* save_config_close writing its assignment over the other client's saved
\* document instead of the document it loaded
save_config_close_Reapply(r) ==
    /\ req[r].pc = "save_write"
    /\ LET others == {q \in Clients \ {r} : req[q].wrote}
           base == IF others = {} THEN req[r].config
                   ELSE set_nested_value(req[CHOOSE q \in others : TRUE].config,
                                         req[r].path, req[r].value).doc
       IN file' = FileOf(Overlay(file.text, dumps(base)))
    /\ req' = [req EXCEPT ![r].pc = "done", ![r].res = GetOk(req[r].value),
                          ![r].wrote = TRUE]

save_config_close(r) ==
    /\ req[r].pc = "save_write"
    /\ file' = FileOf(Overlay(file.text, dumps(req[r].config)))
    /\ req' = [req EXCEPT ![r].pc = "done", ![r].res = GetOk(req[r].value),
                          ![r].wrote = TRUE]

\* get_config_value (main.py 135-140)
get_config_value(r, p) ==
    /\ req[r].pc \in {"idle", "done"}
    /\ LET c == load_config(file) IN
       req' = [req EXCEPT ![r] =
              [pc |-> "done", op |-> "get", path |-> p, value |-> req[r].value,
               config |-> NoVal,
               res |-> IF c.ok THEN get_nested_value(c.val, p) ELSE c,
               wrote |-> req[r].wrote]]
    /\ UNCHANGED file

(***************************************************************************)
(* The process supervisor.                                                 *)
(*                                                                         *)
(* Callers invoke the lifecycle handlers concurrently; process_lock is the *)
(* only mutual exclusion the handlers rely on.  A handler is a sequence of *)
(* steps, one per observation of or effect on the host (poll, scan, spawn, *)
(* signal, wait); between any two steps processes are launched and exit.   *)
(* The executable file belongs to the host: what os.path.exists and Popen  *)
(* find there is the host's choice at each call.                           *)
(***************************************************************************)
Callers == {"c1", "c2"}
Pids == 1..MaxPids

NoProc == [state |-> "none", owned |-> FALSE, denied |-> FALSE, log |-> FALSE, sigs |-> <<>>]
Exited == [state |-> "exited", owned |-> FALSE, denied |-> FALSE, log |-> FALSE, sigs |-> <<>>]
IsRunning(p) == procs[p].state = "running"
RunningPids == {p \in Pids : IsRunning(p)}

\* zbproxy_process and zbproxy_process.poll() is None
TrackedAlive == zbproxy_process # 0 /\ IsRunning(zbproxy_process)

\* find_zbproxy_process (main.py 114-122): the first process, in pid order,
\* whose name contains ZBPROXY_EXECUTABLE; 0 for None
find_zbproxy_process ==
    IF RunningPids = {} THEN 0
    ELSE CHOOSE p \in RunningPids : \A q \in RunningPids : p <= q

\* The locals of a call; quiet and launched are bookkeeping for the claims:
\* quiet says that no process ran when the call began and none was launched
\* since, launched that a process was launched while the call was running.
IdleCall == [op |-> "none", pc |-> "idle", proc |-> 0, stopped |-> <<>>,
             stop_result |-> <<>>, quiet |-> FALSE, launched |-> FALSE]
NoRet == [caller |-> "none", op |-> "none", ok |-> FALSE, raised |-> FALSE,
          kind |-> "none", pid |-> 0, stopped |-> <<>>]
Returned(k, p) == [caller |-> "none", op |-> "none",
                   ok |-> (k \in {"ok", "running", "external", "stopped"}),
                   raised |-> FALSE, kind |-> k, pid |-> p, stopped |-> <<>>]
Raised(k) == [caller |-> "none", op |-> "none", ok |-> FALSE, raised |-> TRUE,
              kind |-> k, pid |-> 0, stopped |-> <<>>]

\* with process_lock: (main.py 290, 323, 407)
\* acquire_NoLock: the body entered without waiting for the lock
acquire_NoLock(c) == process_lock' = c
acquire(c) == process_lock = "free" /\ process_lock' = c
release(c) == process_lock' = "free"

\* restart_zbproxy's return (main.py 474-486): the pid of a successful start;
\* of a start that returned a failure only the message; an exception of
\* start_zbproxy passes through
\* RestartOutcome taking an instance that is already running for a restart
\* that succeeded
RestartOutcome_AlreadyOk(r) ==
    IF r.kind = "AlreadyRunning" THEN [r EXCEPT !.ok = TRUE]
    ELSE IF r.ok \/ r.raised THEN r ELSE [r EXCEPT !.pid = 0]
RestartOutcome(r) == IF r.ok \/ r.raised THEN r ELSE [r EXCEPT !.pid = 0]

\* start_zbproxy returns or raises: to its caller, or into restart_zbproxy
StartReturns(c, o, r) ==
    /\ ret' = [(IF o = "restart" THEN RestartOutcome(r) ELSE r)
                  EXCEPT !.caller = c, !.op = o]
    /\ call' = [call EXCEPT ![c] = IdleCall]

\* stop_zbproxy returns (main.py 453-462): to its caller, or into
\* restart_zbproxy, which keeps the result in stop_result and sleeps (468-471)
StopReturns(c, list) ==
    IF call[c].op = "restart"
    THEN /\ call' = [call EXCEPT ![c] = [IdleCall EXCEPT !.op = "restart",
                         !.pc = "restart_sleep", !.stop_result = list]]
         /\ ret' = NoRet
    ELSE /\ call' = [call EXCEPT ![c] = IdleCall]
         /\ ret' = [Returned("ok", 0) EXCEPT !.caller = c, !.op = "stop",
                                             !.stopped = list]

\* an exception leaves stop_zbproxy, and restart_zbproxy if that called it
StopRaises(c, k) ==
    /\ call' = [call EXCEPT ![c] = IdleCall]
    /\ ret' = [Raised(k) EXCEPT !.caller = c, !.op = call[c].op]

\* the signals a running process has received, each kind once, in the order
\* of their first arrival
Signalled(p, sig) ==
    IF \E i \in 1..Len(procs[p].sigs) : procs[p].sigs[i] = sig THEN procs
    ELSE [procs EXCEPT ![p].sigs = Append(@, sig)]

(***************************************************************************)
(* get_status (main.py 285-316)                                            *)
(***************************************************************************)
\* get_status trusting the reference without polling it
get_status_NoPoll(c) ==
    /\ call[c].pc = "idle"
    /\ process_lock = "free"
    /\ IF zbproxy_process # 0
       THEN /\ ret' = [Returned("running", zbproxy_process)
                          EXCEPT !.caller = c, !.op = "status"]
            /\ UNCHANGED zbproxy_process
       ELSE /\ zbproxy_process' = 0
            /\ ret' = [(IF find_zbproxy_process # 0
                        THEN Returned("external", find_zbproxy_process)
                        ELSE Returned("stopped", 0))
                          EXCEPT !.caller = c, !.op = "status"]
    /\ UNCHANGED <<process_lock, procs, nextPid, spawnAttempts, openLogs, call>>

\* get_status clearing the reference only when it reports an external process
get_status_KeepStale(c) ==
    /\ call[c].pc = "idle"
    /\ process_lock = "free"
    /\ IF TrackedAlive
       THEN /\ ret' = [Returned("running", zbproxy_process)
                          EXCEPT !.caller = c, !.op = "status"]
            /\ UNCHANGED zbproxy_process
       ELSE /\ zbproxy_process' = IF find_zbproxy_process # 0 THEN 0
                                  ELSE zbproxy_process
            /\ ret' = [(IF find_zbproxy_process # 0
                        THEN Returned("external", find_zbproxy_process)
                        ELSE Returned("stopped", 0))
                          EXCEPT !.caller = c, !.op = "status"]
    /\ UNCHANGED <<process_lock, procs, nextPid, spawnAttempts, openLogs, call>>

get_status(c) ==
    /\ call[c].pc = "idle"
    /\ process_lock = "free"
    /\ IF TrackedAlive
       THEN /\ ret' = [Returned("running", zbproxy_process)
                          EXCEPT !.caller = c, !.op = "status"]
            /\ UNCHANGED zbproxy_process
       ELSE /\ zbproxy_process' = 0
            /\ ret' = [(IF find_zbproxy_process # 0
                        THEN Returned("external", find_zbproxy_process)
                        ELSE Returned("stopped", 0))
                          EXCEPT !.caller = c, !.op = "status"]
    /\ UNCHANGED <<process_lock, procs, nextPid, spawnAttempts, openLogs, call>>

(***************************************************************************)
(* start_zbproxy (main.py 318-400)                                         *)
(***************************************************************************)
\* start_check without the scan for processes it does not track
start_check_NoScan(c, o) ==
    /\ \/ call[c].pc = "idle" /\ o = "start"
       \/ call[c].pc = "restart_sleep" /\ o = "restart"
    /\ IF TrackedAlive
       THEN /\ process_lock = "free"
            /\ StartReturns(c, o, Returned("AlreadyRunning", zbproxy_process))
            /\ UNCHANGED process_lock
       ELSE \/ /\ process_lock = "free"
               /\ StartReturns(c, o, Raised("NotFound"))
               /\ UNCHANGED process_lock
            \/ /\ spawnAttempts < MaxSpawns /\ nextPid <= MaxPids
               /\ acquire(c)
               /\ call' = [call EXCEPT ![c] =
                      [call[c] EXCEPT !.op = o, !.pc = "start_spawn"]]
               /\ ret' = NoRet
    /\ UNCHANGED <<zbproxy_process, procs, nextPid, spawnAttempts, openLogs>>

\* 323-354: the running checks and the executable's existence.  The chmod of
\* 347-354 changes only what Popen will find.
start_check(c, o) ==
    /\ \/ call[c].pc = "idle" /\ o = "start"
       \/ call[c].pc = "restart_sleep" /\ o = "restart"
    /\ IF TrackedAlive
       THEN /\ process_lock = "free"
            /\ StartReturns(c, o, Returned("AlreadyRunning", zbproxy_process))
            /\ UNCHANGED process_lock
       ELSE IF find_zbproxy_process # 0
       THEN /\ process_lock = "free"
            /\ StartReturns(c, o, Returned("AlreadyRunning", 0))
            /\ UNCHANGED process_lock
       ELSE \/ /\ process_lock = "free"
               /\ StartReturns(c, o, Raised("NotFound"))
               /\ UNCHANGED process_lock
            \/ /\ spawnAttempts < MaxSpawns /\ nextPid <= MaxPids
               /\ acquire(c)
               /\ call' = [call EXCEPT ![c] =
                      [call[c] EXCEPT !.op = o, !.pc = "start_spawn"]]
               /\ ret' = NoRet
    /\ UNCHANGED <<zbproxy_process, procs, nextPid, spawnAttempts, openLogs>>

\* start_spawn leaving the with-block once Popen returned: the wait and the
\* poll run without the lock
start_spawn_ReleaseEarly(c) ==
    /\ call[c].pc = "start_spawn"
    /\ spawnAttempts' = spawnAttempts + 1
    /\ openLogs' = openLogs + 1
    /\ \/ /\ procs' = [procs EXCEPT ![nextPid] =
                 [state |-> "running", owned |-> TRUE, denied |-> FALSE,
                  log |-> TRUE, sigs |-> <<>>]]
          /\ zbproxy_process' = nextPid
          /\ nextPid' = nextPid + 1
          /\ call' = [call EXCEPT ![c].pc = "start_recheck"]
          /\ ret' = NoRet
          /\ release(c)
       \/ /\ \E k \in {"NotFound", "PermissionDenied"} :
                StartReturns(c, call[c].op, Raised(k))
          /\ zbproxy_process' = 0
          /\ release(c)
          /\ UNCHANGED <<procs, nextPid>>

\* 356-371 and 386-400: open out.log for writing, subprocess.Popen
start_spawn(c) ==
    /\ call[c].pc = "start_spawn"
    /\ spawnAttempts' = spawnAttempts + 1
    /\ openLogs' = openLogs + 1
    /\ \/ /\ procs' = [procs EXCEPT ![nextPid] =
                 [state |-> "running", owned |-> TRUE, denied |-> FALSE,
                  log |-> TRUE, sigs |-> <<>>]]
          /\ zbproxy_process' = nextPid
          /\ nextPid' = nextPid + 1
          /\ call' = [call EXCEPT ![c].pc = "start_recheck"]
          /\ ret' = NoRet
          /\ UNCHANGED process_lock
       \/ /\ \E k \in {"NotFound", "PermissionDenied"} :
                StartReturns(c, call[c].op, Raised(k))
          /\ zbproxy_process' = 0
          /\ release(c)
          /\ UNCHANGED <<procs, nextPid>>

\* start_recheck raising without clearing the reference
start_recheck_KeepRef(c) ==
    /\ call[c].pc = "start_recheck"
    /\ IF TrackedAlive
       THEN StartReturns(c, call[c].op, Returned("ok", zbproxy_process))
       ELSE StartReturns(c, call[c].op, Raised("LaunchFailed"))
    /\ release(c)
    /\ UNCHANGED <<zbproxy_process, procs, nextPid, spawnAttempts, openLogs>>

\* 373-384 and 398-400: time.sleep(1), then one poll.  The HTTPException of
\* 384 is raised inside the try: the handler of 398-400 catches it, clears
\* the reference again and raises a 500 that carries its message.
start_recheck(c) ==
    /\ call[c].pc = "start_recheck"
    /\ IF TrackedAlive
       THEN /\ StartReturns(c, call[c].op, Returned("ok", zbproxy_process))
            /\ UNCHANGED zbproxy_process
       ELSE /\ zbproxy_process' = 0
            /\ StartReturns(c, call[c].op, Raised("LaunchFailed"))
    /\ release(c)
    /\ UNCHANGED <<procs, nextPid, spawnAttempts, openLogs>>

(***************************************************************************)
(* stop_zbproxy (main.py 402-462)                                          *)
(***************************************************************************)
\* stop_begin sending SIGKILL where the code sends SIGTERM
stop_begin_KillFirst(c, o) ==
    /\ call[c].pc = "idle"
    /\ o \in {"stop", "restart"}
    /\ acquire(c)
    /\ IF TrackedAlive
       THEN /\ procs' = Signalled(zbproxy_process, "KILL")
            /\ call' = [call EXCEPT ![c] = [IdleCall EXCEPT !.op = o, !.pc = "stop_wait"]]
       ELSE /\ procs' = procs
            /\ call' = [call EXCEPT ![c] = [IdleCall EXCEPT !.op = o, !.pc = "stop_scan",
                                                            !.quiet = (RunningPids = {})]]
    /\ ret' = NoRet
    /\ UNCHANGED <<zbproxy_process, nextPid, spawnAttempts, openLogs>>

\* 407-416: take the lock, poll the tracked process, send it SIGTERM
stop_begin(c, o) ==
    /\ call[c].pc = "idle"
    /\ o \in {"stop", "restart"}
    /\ acquire(c)
    /\ IF TrackedAlive
       THEN /\ procs' = Signalled(zbproxy_process, "TERM")
            /\ call' = [call EXCEPT ![c] = [IdleCall EXCEPT !.op = o, !.pc = "stop_wait"]]
       ELSE /\ procs' = procs
            /\ call' = [call EXCEPT ![c] = [IdleCall EXCEPT !.op = o, !.pc = "stop_scan",
                                                            !.quiet = (RunningPids = {})]]
    /\ ret' = NoRet
    /\ UNCHANGED <<zbproxy_process, nextPid, spawnAttempts, openLogs>>

\* 418-437: wait(timeout=5).  Either the process exits within the timeout
\* (or had exited): its pid is appended, the log file closed and the
\* reference cleared.  Or TimeoutExpired is raised and kill() sends SIGKILL
\* (422-423).
stop_wait(c) ==
    /\ call[c].pc = "stop_wait"
    /\ LET p == zbproxy_process IN
       \/ /\ procs' = [procs EXCEPT ![p] = Exited]
          /\ call' = [call EXCEPT ![c].pc = "stop_scan", ![c].stopped = Append(@, p)]
          /\ openLogs' = openLogs - 1
          /\ zbproxy_process' = 0
       \/ /\ IsRunning(p)
          /\ procs' = Signalled(p, "KILL")
          /\ call' = [call EXCEPT ![c].pc = "stop_killwait"]
          /\ UNCHANGED <<openLogs, zbproxy_process>>
    /\ ret' = NoRet
    /\ UNCHANGED <<process_lock, nextPid, spawnAttempts>>

\* 424-437: wait() without a timeout returns once the killed process is
\* gone; the pid is appended, the log file closed, the reference cleared
stop_killwait(c) ==
    /\ call[c].pc = "stop_killwait"
    /\ ~IsRunning(zbproxy_process)
    /\ call' = [call EXCEPT ![c].pc = "stop_scan",
                             ![c].stopped = Append(@, zbproxy_process)]
    /\ openLogs' = openLogs - 1
    /\ zbproxy_process' = 0
    /\ ret' = NoRet
    /\ UNCHANGED <<process_lock, procs, nextPid, spawnAttempts>>

\* stop_scan without the test of the scan's result: terminate() on None
stop_scan_NoGuard(c) ==
    /\ call[c].pc = "stop_scan"
    /\ IF find_zbproxy_process = 0
       THEN /\ StopRaises(c, "ProcessError")
            /\ release(c)
       ELSE /\ call' = [call EXCEPT ![c].pc = "stop_terminate",
                                    ![c].proc = find_zbproxy_process]
            /\ ret' = NoRet
            /\ UNCHANGED process_lock
    /\ UNCHANGED <<zbproxy_process, procs, nextPid, spawnAttempts, openLogs>>

\* 440-441 and 453-462: the scan; with nothing found the handler returns
stop_scan(c) ==
    /\ call[c].pc = "stop_scan"
    /\ IF find_zbproxy_process = 0
       THEN /\ StopReturns(c, call[c].stopped)
            /\ release(c)
       ELSE /\ call' = [call EXCEPT ![c].pc = "stop_terminate",
                                    ![c].proc = find_zbproxy_process]
            /\ ret' = NoRet
            /\ UNCHANGED process_lock
    /\ UNCHANGED <<zbproxy_process, procs, nextPid, spawnAttempts, openLogs>>

\* stop_terminate with the lock taken by acquire() and release() calls in
\* place of the with-block: the exception skips the release
stop_terminate_KeepLock(c) ==
    /\ call[c].pc = "stop_terminate"
    /\ LET p == call[c].proc IN
       IF ~IsRunning(p)
       THEN /\ StopRaises(c, "ProcessError")
            /\ UNCHANGED <<process_lock, procs>>
       ELSE IF procs[p].denied
       THEN /\ StopReturns(c, call[c].stopped)
            /\ release(c)
            /\ UNCHANGED procs
       ELSE /\ procs' = Signalled(p, "TERM")
            /\ call' = [call EXCEPT ![c].pc = "stop_extwait"]
            /\ ret' = NoRet
            /\ UNCHANGED process_lock
    /\ UNCHANGED <<zbproxy_process, nextPid, spawnAttempts, openLogs>>

\* 443 and 446-451: proc.terminate().  psutil.NoSuchProcess is not caught;
\* on psutil.AccessDenied proc.kill() is tried, and fails the same way
stop_terminate(c) ==
    /\ call[c].pc = "stop_terminate"
    /\ LET p == call[c].proc IN
       IF ~IsRunning(p)
       THEN /\ StopRaises(c, "ProcessError")
            /\ release(c)
            /\ UNCHANGED procs
       ELSE IF procs[p].denied
       THEN /\ StopReturns(c, call[c].stopped)
            /\ release(c)
            /\ UNCHANGED procs
       ELSE /\ procs' = Signalled(p, "TERM")
            /\ call' = [call EXCEPT ![c].pc = "stop_extwait"]
            /\ ret' = NoRet
            /\ UNCHANGED process_lock
    /\ UNCHANGED <<zbproxy_process, nextPid, spawnAttempts, openLogs>>

\* 444-451: proc.wait(timeout=5).  Either the process exits within the
\* timeout (or had exited) and its pid is appended.  Or psutil.TimeoutExpired
\* is raised: proc.kill() sends SIGKILL and the pid is appended without a
\* further wait; unless kill() finds the process just gone, a failure that is
\* swallowed before the append.
stop_extwait(c) ==
    /\ call[c].pc = "stop_extwait"
    /\ LET p == call[c].proc IN
       \/ /\ procs' = [procs EXCEPT ![p] = Exited]
          /\ StopReturns(c, Append(call[c].stopped, p))
       \/ /\ IsRunning(p)
          /\ procs' = Signalled(p, "KILL")
          /\ StopReturns(c, Append(call[c].stopped, p))
       \/ /\ IsRunning(p)
          /\ procs' = [procs EXCEPT ![p] = Exited]
          /\ StopReturns(c, call[c].stopped)
    /\ release(c)
    /\ UNCHANGED <<zbproxy_process, nextPid, spawnAttempts, openLogs>>

(***************************************************************************)
(* get_logs (main.py 488-567): the status it reads under process_lock      *)
(* (501-531).  The log files it reads afterwards are not part of the       *)
(* model.                                                                  *)
(***************************************************************************)
\* 501-503 and 517-531: take the lock, poll the tracked process; if it is not
\* alive, scan
logs_poll(c) ==
    /\ call[c].pc = "idle"
    /\ IF TrackedAlive
       THEN /\ acquire(c)
            /\ call' = [call EXCEPT ![c] = [IdleCall EXCEPT !.op = "logs",
                                                            !.pc = "logs_probe"]]
            /\ ret' = NoRet
       ELSE /\ process_lock = "free"
            /\ ret' = [(IF find_zbproxy_process # 0
                        THEN Returned("external", find_zbproxy_process)
                        ELSE Returned("stopped", 0))
                          EXCEPT !.caller = c, !.op = "logs"]
            /\ UNCHANGED <<process_lock, call>>
    /\ UNCHANGED <<zbproxy_process, procs, nextPid, spawnAttempts, openLogs>>

\* 504-516: psutil.Process(zbproxy_process.pid); on psutil.NoSuchProcess the
\* reference is cleared
logs_probe(c) ==
    /\ call[c].pc = "logs_probe"
    /\ IF IsRunning(zbproxy_process)
       THEN /\ ret' = [Returned("running", zbproxy_process)
                          EXCEPT !.caller = c, !.op = "logs"]
            /\ UNCHANGED zbproxy_process
       ELSE /\ ret' = [Returned("stopped", 0) EXCEPT !.caller = c, !.op = "logs"]
            /\ zbproxy_process' = 0
    /\ call' = [call EXCEPT ![c] = IdleCall]
    /\ release(c)
    /\ UNCHANGED <<procs, nextPid, spawnAttempts, openLogs>>

(***************************************************************************)
(* restart_zbproxy (main.py 464-486): stop_zbproxy, time.sleep(2),         *)
(* start_zbproxy; the lock is taken by each of the two, not by restart.    *)
(***************************************************************************)
Start(c) == start_check(c, "start")
Stop(c) == stop_begin(c, "stop")
Restart(c) == stop_begin(c, "restart")
RestartStart(c) == start_check(c, "restart")
Status(c) == get_status(c)
Logs(c) == logs_poll(c)

(***************************************************************************)
(* The host.                                                               *)
(***************************************************************************)
\* a start_zbproxy past its checks will need a pid
PidsReserved == IF \E c \in Callers : call[c].pc = "start_spawn" THEN 1 ELSE 0

\* somebody launches the executable outside the supervisor
ExtLaunch ==
    /\ nextPid + PidsReserved <= MaxPids
    /\ \E d \in BOOLEAN :
          procs' = [procs EXCEPT ![nextPid] =
              [state |-> "running", owned |-> FALSE, denied |-> d, log |-> FALSE,
               sigs |-> <<>>]]
    /\ nextPid' = nextPid + 1
    /\ call' = [c \in Callers |->
                  IF call[c].pc = "idle" THEN call[c]
                  ELSE [call[c] EXCEPT !.launched = TRUE, !.quiet = FALSE]]
    /\ ret' = NoRet
    /\ UNCHANGED <<zbproxy_process, process_lock, spawnAttempts, openLogs>>

\* a process exits on its own
ProcExit ==
    /\ \E p \in RunningPids : procs' = [procs EXCEPT ![p] = Exited]
    /\ ret' = NoRet
    /\ UNCHANGED <<zbproxy_process, process_lock, nextPid, spawnAttempts,
                   openLogs, call>>

\* No code closes an out.log handle but line 430.  A handle that neither a
\* local variable nor the tracked Popen object refers to any more is closed
\* when the interpreter collects it, which the code does not control.
CollectLog ==
    /\ openLogs > (IF zbproxy_process # 0 THEN 1 ELSE 0)
    /\ openLogs' = openLogs - 1
    /\ ret' = NoRet
    /\ UNCHANGED <<zbproxy_process, process_lock, procs, nextPid, spawnAttempts,
                   call>>

InitSup ==
    /\ zbproxy_process = 0
    /\ process_lock = "free"
    /\ procs = [p \in Pids |-> NoProc]
    /\ nextPid = 1
    /\ spawnAttempts = 0
    /\ openLogs = 0
    /\ call = [c \in Callers |-> IdleCall]
    /\ ret = NoRet

InitStoreIdle ==
    /\ file = NoFile
    /\ req = [r \in Clients |-> Idle]

InitPathIdle ==
    /\ data = NoVal /\ path = <<>> /\ value = NoVal /\ phase = "off"
    /\ dataBefore = NoVal /\ getRes = GetErr("none") /\ setRes = SetErr("none", NoVal)

Init == InitSup /\ InitStoreIdle /\ InitPathIdle

Next ==
    \/ \E c \in Callers : Start(c) /\ UNCHANGED <<pathVars, storeVars>>
    \/ \E c \in Callers : start_spawn(c) /\ UNCHANGED <<pathVars, storeVars>>
    \/ \E c \in Callers : start_recheck(c) /\ UNCHANGED <<pathVars, storeVars>>
    \/ \E c \in Callers : Stop(c) /\ UNCHANGED <<pathVars, storeVars>>
    \/ \E c \in Callers : stop_wait(c) /\ UNCHANGED <<pathVars, storeVars>>
    \/ \E c \in Callers : stop_killwait(c) /\ UNCHANGED <<pathVars, storeVars>>
    \/ \E c \in Callers : stop_scan(c) /\ UNCHANGED <<pathVars, storeVars>>
    \/ \E c \in Callers : stop_terminate(c) /\ UNCHANGED <<pathVars, storeVars>>
    \/ \E c \in Callers : stop_extwait(c) /\ UNCHANGED <<pathVars, storeVars>>
    \/ \E c \in Callers : Restart(c) /\ UNCHANGED <<pathVars, storeVars>>
    \/ \E c \in Callers : RestartStart(c) /\ UNCHANGED <<pathVars, storeVars>>
    \/ \E c \in Callers : Status(c) /\ UNCHANGED <<pathVars, storeVars>>
    \/ \E c \in Callers : Logs(c) /\ UNCHANGED <<pathVars, storeVars>>
    \/ \E c \in Callers : logs_probe(c) /\ UNCHANGED <<pathVars, storeVars>>
    \/ ExtLaunch /\ UNCHANGED <<pathVars, storeVars>>
    \/ ProcExit /\ UNCHANGED <<pathVars, storeVars>>
    \/ CollectLog /\ UNCHANGED <<pathVars, storeVars>>

Spec == Init /\ [][Next]_vars

\* SpecLive: a caller inside a with-block keeps running.  Nothing is assumed
\* of the processes: whether and when one exits is the host's matter.
BodyStep(c) ==
    /\ \/ start_spawn(c) \/ start_recheck(c)
       \/ stop_wait(c) \/ stop_killwait(c) \/ stop_scan(c)
       \/ stop_terminate(c) \/ stop_extwait(c)
       \/ logs_probe(c)
    /\ UNCHANGED <<pathVars, storeVars>>

SpecLive == Init /\ [][Next]_vars /\ \A c \in Callers : WF_vars(BodyStep(c))

(***************************************************************************)
(* SpecPath: the accessor applied to every document, path and value of the *)
(* bounded sets.                                                           *)
(***************************************************************************)
InitPath ==
    /\ data \in Docs
    /\ path \in Paths
    /\ value \in Values
    /\ phase = "ready"
    /\ dataBefore = data
    /\ getRes = GetErr("none")
    /\ setRes = SetErr("none", data)
    /\ file = FileOf(dumps(data))
    /\ req = [r \in Clients |-> Idle]
    /\ InitSup

\* resolve(D, P) on the document as loaded
Resolve ==
    /\ phase = "ready"
    /\ getRes' = get_nested_value(data, path)
    /\ phase' = "resolved"
    /\ UNCHANGED <<data, path, value, dataBefore, setRes, storeVars, supVars>>

\* assign(D, P, v)
Assign ==
    /\ phase = "ready"
    /\ setRes' = set_nested_value(data, path, value)
    /\ data' = setRes'.doc
    /\ dataBefore' = data
    /\ phase' = "assigned"
    /\ UNCHANGED <<path, value, getRes, storeVars, supVars>>

\* resolve(D, P) on the document assign left behind
ResolveAfter ==
    /\ phase = "assigned"
    /\ getRes' = get_nested_value(data, path)
    /\ phase' = "reread"
    /\ UNCHANGED <<data, path, value, dataBefore, setRes, storeVars, supVars>>

\* setValue(P, v) against the file holding D, one step of it at a time
SetValue ==
    /\ \/ phase = "ready" /\ update_config_value("r1", path, value)
       \/ phase = "store" /\ save_config_open("r1")
       \/ phase = "store" /\ save_config_close("r1")
    /\ phase' = "store"
    /\ UNCHANGED <<data, path, value, dataBefore, getRes, setRes, supVars>>

\* getValue(P) once setValue has returned
GetValue ==
    /\ phase = "store"
    /\ req["r1"].pc = "done" /\ req["r1"].op = "set"
    /\ get_config_value("r1", path)
    /\ UNCHANGED <<pathVars, supVars>>

NextPath == Resolve \/ Assign \/ ResolveAfter \/ SetValue \/ GetValue

SpecPath == InitPath /\ [][NextPath]_vars

(***************************************************************************)
(* SpecStore: two clients' getValue and setValue requests against one      *)
(* CONFIG_FILE, interleaved at the file operations.  No lock is taken by   *)
(* get_config_value or update_config_value (main.py 135-160).              *)
(***************************************************************************)
StoreDocs == {Ob(<<>>)} \cup {Ob(f) : f \in [{<<"a">>} -> Docs1]}
StorePaths == {<<"a">>, <<"a", "a">>, <<"a", ".", "0">>, <<"a", ".", "1">>}

InitStore ==
    /\ data \in StoreDocs
    /\ path = <<>> /\ value = NoVal
    /\ phase = "clients"
    /\ dataBefore = data
    /\ getRes = GetErr("none")
    /\ setRes = SetErr("none", data)
    /\ file = FileOf(dumps(data))
    /\ req = [r \in Clients |-> Idle]
    /\ InitSup

\* PUT /config arrives
StoreSet(r) ==
    /\ req[r].pc = "idle"
    /\ \E p \in StorePaths, v \in Values : update_config_value(r, p, v)
    /\ UNCHANGED <<pathVars, supVars>>

StoreSaveOpen(r) == save_config_open(r) /\ UNCHANGED <<pathVars, supVars>>

StoreSaveClose(r) == save_config_close(r) /\ UNCHANGED <<pathVars, supVars>>

\* GET /config/{path} arrives
StoreGet(r) ==
    /\ req[r].pc = "idle"
    /\ \E p \in StorePaths : get_config_value(r, p)
    /\ UNCHANGED <<pathVars, supVars>>

NextStore ==
    \/ \E r \in Clients : StoreSet(r)
    \/ \E r \in Clients : StoreSaveOpen(r)
    \/ \E r \in Clients : StoreSaveClose(r)
    \/ \E r \in Clients : StoreGet(r)

SpecStore == InitStore /\ [][NextStore]_vars

(***************************************************************************)
(* Claims about the path accessor and the store.                           *)
(***************************************************************************)
P_a_0 == <<"a", ".", "0">>
P_a_a == <<"a", ".", "a">>

\* C8: write-then-read round trip.  If assign(D, P, v) succeeded, resolve(D, P)
\* on the assigned document returns v; and a getValue(P) that follows a
\* successful setValue(P, v) returns v.
C8_RoundTrip ==
    /\ (phase = "reread" /\ setRes.ok => getRes = GetOk(value))
    /\ (phase = "store" /\ req["r1"].op = "get" /\ req["r1"].wrote
            => req["r1"].res = GetOk(value))

C8_Witness ==
    /\ phase = "store" /\ req["r1"].op = "get" /\ req["r1"].wrote
    /\ path = P_a_0 /\ value = Sc(2)
    /\ req["r1"].res = GetOk(Sc(2))

\* The node one segment below a node, and whether the segment leads anywhere.
Descends(node, key) ==
    IF isdigit(key) THEN IsList(node) /\ int(key) < Len(node.v)
    ELSE IsDict(node) /\ key \in DOMAIN node.v
Child(node, key) == IF isdigit(key) THEN node.v[int(key) + 1] ELSE node.v[key]

RECURSIVE NodeAt(_, _)
NodeAt(d, keys) == IF keys = <<>> THEN d ELSE NodeAt(Child(d, Head(keys)), Tail(keys))

RECURSIVE Reaches(_, _)
Reaches(d, keys) ==
    keys = <<>> \/ (Descends(d, Head(keys)) /\ Reaches(Child(d, Head(keys)), Tail(keys)))

\* C9: resolve walks P segment by segment from the root.  It returns the node
\* at that location when every segment leads on; otherwise, at the first
\* segment that does not, it fails with InvalidIndex if that segment is
\* numeric and with PathNotFound if it is not.
C9_Resolve ==
    phase = "resolved" =>
        LET keys == split(path) IN
        IF Reaches(data, keys)
        THEN getRes = GetOk(NodeAt(data, keys))
        ELSE \E k \in 1..Len(keys) :
                /\ Reaches(data, SubSeq(keys, 1, k - 1))
                /\ ~Descends(NodeAt(data, SubSeq(keys, 1, k - 1)), keys[k])
                /\ getRes = GetErr(IF isdigit(keys[k]) THEN "InvalidIndex"
                                                       ELSE "PathNotFound")

\* index 0 of an empty array
C9_Witness ==
    /\ phase = "resolved"
    /\ data = Ob([k \in {<<"a">>} |-> Ar(<<>>)])
    /\ path = P_a_0
    /\ getRes = GetErr("InvalidIndex")

SameSeg(x, y) == IF isdigit(x) THEN isdigit(y) /\ int(x) = int(y) ELSE x = y
LocPrefix(p, q) == Len(p) <= Len(q) /\ \A i \in 1..Len(p) : SameSeg(p[i], q[i])
Unrelated(p, q) == ~LocPrefix(split(p), split(q)) /\ ~LocPrefix(split(q), split(p))

\* the paths of one and two segments: they name every location of a document
\* of Docs that a path can name
SegChars == Letters \cup Digits
Probes == {<<x>> : x \in SegChars} \cup {<<x, ".", y>> : x \in SegChars, y \in SegChars}

\* after differs from before at the location keys alone, where it holds v
RECURSIVE OnlyChanged(_, _, _, _)
OnlyChanged(before, after, keys, v) ==
    IF keys = <<>> THEN after = v
    ELSE LET key == Head(keys) IN
         IF isdigit(key)
         THEN /\ IsList(before) /\ IsList(after)
              /\ Len(after.v) = Len(before.v)
              /\ int(key) < Len(before.v)
              /\ \A i \in 1..Len(before.v) :
                    IF i = int(key) + 1
                    THEN OnlyChanged(before.v[i], after.v[i], Tail(keys), v)
                    ELSE after.v[i] = before.v[i]
         ELSE /\ IsDict(before) /\ IsDict(after)
              /\ DOMAIN after.v = DOMAIN before.v \cup {key}
              /\ \A k \in DOMAIN after.v :
                    IF k # key THEN after.v[k] = before.v[k]
                    ELSE IF key \in DOMAIN before.v
                         THEN OnlyChanged(before.v[k], after.v[k], Tail(keys), v)
                         ELSE Len(keys) = 1 /\ after.v[k] = v

\* C10: a successful assign(D, P, v) changes the location P alone: every other
\* key and element on the way keeps its value, no container on the way gains
\* or loses a member other than P's last key, and every path that is neither
\* above nor below P resolves as it did before.
C10_Frame ==
    phase = "assigned" /\ setRes.ok =>
        /\ OnlyChanged(dataBefore, data, split(path), value)
        /\ \A q \in Probes : Unrelated(path, q) =>
              get_nested_value(data, q) = get_nested_value(dataBefore, q)

\* Log.Level written beside a sibling key and a sibling of the parent
C10_Witness ==
    /\ phase = "assigned" /\ setRes.ok
    /\ path = P_a_a /\ value = Sc(2)
    /\ dataBefore = Ob([k \in DocKeys |->
                          IF k = <<"a">> THEN Ob([j \in DocKeys |-> Sc(1)]) ELSE Sc(1)])
    /\ data = Ob([k \in DocKeys |->
                    IF k = <<"a">>
                    THEN Ob([j \in DocKeys |-> IF j = <<"a">> THEN Sc(2) ELSE Sc(1)])
                    ELSE Sc(1)])

\* the segments before the last, and the last
ParentKeys(p) == SubSeq(split(p), 1, Len(split(p)) - 1)
LastKey(p) == split(p)[Len(split(p))]

\* C11: assign upserts a leaf key and creates no intermediate container.  With
\* a non-numeric last segment whose parent resolves to an object, assign
\* succeeds and the key holds the value, whether or not it was present.  When
\* a segment before the last does not resolve, assign fails at the first such
\* segment, with InvalidIndex if it is numeric and PathNotFound if it is not,
\* and the document is as it was.
C11_Upsert ==
    phase = "assigned" =>
        LET parent == ParentKeys(path)
            last == LastKey(path)
        IN /\ Reaches(dataBefore, parent) /\ ~isdigit(last)
                  /\ IsDict(NodeAt(dataBefore, parent))
              => /\ setRes.ok
                 /\ Reaches(data, split(path))
                 /\ NodeAt(data, split(path)) = value
           /\ ~Reaches(dataBefore, parent)
              => /\ ~setRes.ok
                 /\ data = dataBefore
                 /\ \E k \in 1..Len(parent) :
                       /\ Reaches(dataBefore, SubSeq(parent, 1, k - 1))
                       /\ ~Descends(NodeAt(dataBefore, SubSeq(parent, 1, k - 1)),
                                    parent[k])
                       /\ setRes.err = IF isdigit(parent[k]) THEN "InvalidIndex"
                                                              ELSE "PathNotFound"

\* A.B on the empty object
C11_Witness ==
    /\ phase = "assigned"
    /\ dataBefore = Ob(<<>>) /\ path = P_a_a
    /\ setRes = SetErr("PathNotFound", Ob(<<>>))
    /\ data = Ob(<<>>)

\* C12: a failed assign leaves the in-memory document as it was, and a
\* setValue whose assign failed does not save: the file holds what it held.
C12_FailedAssign ==
    /\ (phase = "assigned" /\ ~setRes.ok => data = dataBefore)
    /\ (phase = "store" /\ req["r1"].op = "set" /\ req["r1"].pc = "done"
            /\ ~req["r1"].res.ok
            => /\ ~req["r1"].wrote
               /\ req["r1"].config = data
               /\ file = FileOf(dumps(data)))

\* setValue of index 0 of an empty array has returned InvalidIndex
C12_Witness ==
    /\ phase = "store" /\ req["r1"].op = "set" /\ req["r1"].pc = "done"
    /\ path = P_a_0 /\ data = Ob([k \in {<<"a">>} |-> Ar(<<>>)])
    /\ req["r1"].res = GetErr("InvalidIndex")
    /\ file = FileOf(dumps(data))

\* C13: resolve with the empty path string returns the document root, for
\* every document.
C13_EmptyPathResolve == phase = "resolved" /\ path = <<>> => getRes = GetOk(data)

\* C14: assign with the empty path string fails with InvalidTarget and leaves
\* the document as it was, for every document and value.
C14_EmptyPathAssign ==
    phase = "assigned" /\ path = <<>> =>
        /\ ~setRes.ok /\ setRes.err = "InvalidTarget"
        /\ data = dataBefore

P_a_1 == <<"a", ".", "1">>

\* C25: assign never appends.  With a numeric last segment whose parent
\* resolves, assign succeeds exactly when the parent is an array and the index
\* is below its length, and fails with InvalidIndex otherwise, changing
\* nothing; and after any assign every array on the way to the target has the
\* length it had.
C25_NoAppend ==
    phase = "assigned" =>
        LET keys == split(path)
            parent == ParentKeys(path)
            last == LastKey(path)
        IN /\ isdigit(last) /\ Reaches(dataBefore, parent) =>
                 LET node == NodeAt(dataBefore, parent) IN
                 IF IsList(node) /\ int(last) < Len(node.v)
                 THEN setRes.ok /\ NodeAt(data, keys) = value
                 ELSE /\ ~setRes.ok /\ setRes.err = "InvalidIndex"
                      /\ data = dataBefore
           /\ \A k \in 0..(Len(keys) - 1) :
                 LET pre == SubSeq(keys, 1, k) IN
                 Reaches(dataBefore, pre) /\ IsList(NodeAt(dataBefore, pre)) =>
                     /\ Reaches(data, pre) /\ IsList(NodeAt(data, pre))
                     /\ Len(NodeAt(data, pre).v) = Len(NodeAt(dataBefore, pre).v)

\* the index equal to the length of a one-element array
C25_Witness ==
    /\ phase = "assigned"
    /\ dataBefore = Ob([k \in {<<"a">>} |-> Ar(<<Sc(1)>>)]) /\ path = P_a_1
    /\ setRes = SetErr("InvalidIndex", dataBefore)
    /\ data = dataBefore

\* C26: assign with a non-numeric last segment whose parent resolves to an
\* array or a scalar fails with InvalidTarget and changes nothing.
C26_InvalidTarget ==
    phase = "assigned" /\ ~isdigit(LastKey(path))
        /\ Reaches(dataBefore, ParentKeys(path))
        /\ ~IsDict(NodeAt(dataBefore, ParentKeys(path)))
        => /\ ~setRes.ok /\ setRes.err = "InvalidTarget"
           /\ data = dataBefore

\* a key of a scalar
C26_Witness ==
    /\ phase = "assigned"
    /\ dataBefore = Ob([k \in {<<"a">>} |-> Sc(1)]) /\ path = P_a_a
    /\ setRes = SetErr("InvalidTarget", dataBefore)
    /\ data = dataBefore

\* C27: assign accepts every location resolve accepts.  For a non-empty path,
\* if resolve succeeds on the document then assign succeeds, for every value;
\* and assign succeeds where resolve fails only for a non-numeric last
\* segment that is absent from the object its parent resolves to.
C27_AssignAcceptsResolved ==
    phase = "assigned" /\ path # <<>> =>
        LET got == get_nested_value(dataBefore, path)
            parent == ParentKeys(path)
            last == LastKey(path)
        IN /\ got.ok => setRes.ok
           /\ setRes.ok /\ ~got.ok =>
                 /\ ~isdigit(last)
                 /\ Reaches(dataBefore, parent)
                 /\ IsDict(NodeAt(dataBefore, parent))
                 /\ last \notin DOMAIN NodeAt(dataBefore, parent).v

\* a key that resolve finds, overwritten
C27_Witness ==
    /\ phase = "assigned" /\ setRes.ok
    /\ dataBefore = Ob([k \in {<<"a">>} |-> Sc(1)]) /\ path = <<"a">>
    /\ value = Sc(2)
    /\ data = Ob([k \in {<<"a">>} |-> Sc(2)])

\* the documents completely saved so far: the one the file began with and
\* those of the clients whose save has closed
SavedDocs == {data} \cup {req[q].config : q \in {x \in Clients : req[x].wrote}}

\* C15: a load never sees the file between a save's truncation and its
\* write: every getValue and every setValue's load reads one of the documents
\* completely saved so far.
C15_AtomicSave ==
    [][\A r \in Clients :
          req[r].pc = "idle" /\ req'[r].pc # "idle"
              => /\ load_config(file).ok
                 /\ load_config(file).val \in SavedDocs]_vars

\* C18: setValue calls are unsynchronised load-assign-save sequences over the
\* whole file.  When a client saves a document it loaded before the other
\* client's save, on an unrelated path, it reports success, the file is its
\* document alone and the other client's write, reported as a success, is no
\* longer in the file.
C18_LastSaveWins ==
    [][\A q \in Clients : \A r \in Clients \ {q} :
          /\ save_config_close(q)
          /\ req[r].pc = "done" /\ req[r].wrote /\ req[r].res.ok
          /\ req[q].config = set_nested_value(data, req[q].path, req[q].value).doc
          /\ file.text = <<>>
          /\ Unrelated(req[q].path, req[r].path)
          => /\ req'[q].res.ok /\ req'[q].wrote
             /\ file' = FileOf(dumps(req[q].config))
             /\ get_nested_value(load_config(file').val, req[r].path)
                    = get_nested_value(data, req[r].path)]_vars

\* both clients were told their write succeeded; the file holds r2's element
\* and not r1's
C18_Witness ==
    /\ data = Ob([k \in {<<"a">>} |-> Ar(<<Sc(1), Sc(1)>>)])
    /\ \A r \in Clients : req[r].pc = "done" /\ req[r].wrote /\ req[r].res.ok
    /\ req["r1"].path = <<"a", ".", "0">> /\ req["r1"].value = Sc(2)
    /\ req["r2"].path = <<"a", ".", "1">> /\ req["r2"].value = Sc(2)
    /\ file = FileOf(dumps(Ob([k \in {<<"a">>} |-> Ar(<<Sc(1), Sc(2)>>)])))

(***************************************************************************)
(* Claims about the process supervisor.                                    *)
(***************************************************************************)
Managed == {p \in Pids : IsRunning(p) /\ procs[p].owned}
ReturnsTo(c, o) == ret'.caller = c /\ ret'.op = o
HostUntouched == UNCHANGED <<procs, nextPid, spawnAttempts, openLogs>>

\* C1: a Start() whose running check finds the tracked process alive, or whose
\* scan finds a process named like the executable, fails with AlreadyRunning:
\* it spawns nothing, does not open out.log, sends no signal and leaves the
\* tracked reference as it was.  (The start inside Restart() included.)
C1_AlreadyRunning ==
    [][\A c \in Callers : \A o \in {"start", "restart"} :
          start_check(c, o) /\ (TrackedAlive \/ RunningPids # {}) =>
              /\ ReturnsTo(c, o)
              /\ ret'.kind = "AlreadyRunning" /\ ~ret'.ok
              /\ zbproxy_process' = zbproxy_process
              /\ process_lock' = "free"
              /\ HostUntouched]_vars

\* the second Start() right after a successful first one
C1_Witness ==
    /\ ret.op = "start" /\ ret.kind = "AlreadyRunning"
    /\ spawnAttempts = 1
    /\ TrackedAlive /\ ret.pid = zbproxy_process

\* C2: at most one process spawned by the supervisor is alive at a time.
C2_OneManaged == Cardinality(Managed) <= 1

\* a second spawn under way while the other caller is inside a call and an
\* external process is running
C2_Witness ==
    /\ spawnAttempts = 2
    /\ Managed # {}
    /\ RunningPids \ Managed # {}
    /\ \E c \in Callers : call[c].pc # "idle"

\* C3: Stop() never fails: whatever happens to the processes while it runs,
\* it returns a success result with the list of stopped pids.
C3_StopNeverFails == ret.op = "stop" => ret.ok /\ ~ret.raised

\* C4: a Stop() that begins with no tracked live process and no process named
\* like the executable (none launched while it runs) returns success with an
\* empty stopped list; none of its steps sends a signal or changes the
\* tracked reference.
C4_StopNothing ==
    [][\A c \in Callers :
          /\ stop_begin(c, "stop") /\ ~TrackedAlive /\ RunningPids = {} =>
                /\ call'[c].quiet
                /\ zbproxy_process' = zbproxy_process /\ HostUntouched
          /\ call[c].op = "stop" /\ call[c].quiet /\ call'[c].pc # call[c].pc =>
                /\ ReturnsTo(c, "stop")
                /\ ret'.ok /\ ~ret'.raised /\ ret'.stopped = <<>>
                /\ process_lock' = "free"
                /\ zbproxy_process' = zbproxy_process /\ HostUntouched]_vars

\* Stop() returned the empty list beside a stale reference, which it left
C4_Witness ==
    /\ ret.op = "stop" /\ ret.ok /\ ret.stopped = <<>>
    /\ zbproxy_process # 0 /\ RunningPids = {}

\* C5: when a Stop() during which no process was launched returns, no process
\* named like the executable is running, tracked or not, however many there
\* were.  (Stated for hosts on which every such process accepts the
\* supervisor's signals and exits on the graceful one: a process that refuses
\* them or outlives them cannot be stopped by any Stop().)
C5_StopsEverything ==
    [][\A c \in Callers :
          /\ call[c].op = "stop" /\ ~call[c].launched
          /\ ReturnsTo(c, "stop") /\ ret'.ok
          /\ \A p \in Pids : ~procs[p].denied
          /\ \A p \in Pids : \A i \in 1..Len(procs'[p].sigs) : procs'[p].sigs[i] # "KILL"
          => \A p \in Pids : procs'[p].state # "running"]_vars

\* C6: Status() reports Running(owned) with the tracked pid if the tracked
\* process is alive; otherwise Running(external) with the pid of a running
\* process named like the executable if there is one; otherwise Stopped.  It
\* neither spawns nor signals.
C6_Status ==
    [][\A c \in Callers :
          get_status(c) =>
              /\ ReturnsTo(c, "status")
              /\ IF TrackedAlive
                 THEN ret'.kind = "running" /\ ret'.pid = zbproxy_process
                 ELSE IF RunningPids # {}
                      THEN ret'.kind = "external" /\ ret'.pid \in RunningPids
                      ELSE ret'.kind = "stopped" /\ ret'.pid = 0
              /\ HostUntouched]_vars

\* an external process reported although Start() was never called
C6_Witness ==
    /\ ret.op = "status" /\ ret.kind = "external"
    /\ spawnAttempts = 0
    /\ ret.pid \in RunningPids /\ ~procs[ret.pid].owned

\* C7: a Restart() whose stop step stopped an instance and whose start step
\* then fails reports failure, and the outcome it returns carries the pids its
\* stop step stopped.
C7_RestartCarriesStopped ==
    [][\A c \in Callers :
          call[c].op = "restart" /\ call[c].stop_result # <<>>
              /\ ReturnsTo(c, "restart") /\ ~ret'.ok
              => ret'.stopped = call[c].stop_result]_vars

\* a caller inside one of the with-blocks of start_zbproxy or stop_zbproxy
InBody(c) == call[c].pc \in {"start_spawn", "start_recheck", "stop_wait",
                             "stop_killwait", "stop_scan", "stop_terminate",
                             "stop_extwait", "logs_probe"}

\* C16: Start, Stop and Status hold process_lock for their whole body.  While
\* a caller is inside a body it holds the lock, no other caller's lifecycle
\* operation takes a step or returns, and the tracked reference changes only
\* by that caller's own step; a Start() spawns only when no process spawned by
\* the supervisor is alive.
C16_LockCoversBody ==
    [][\A c \in Callers :
          /\ InBody(c) =>
                /\ process_lock = c
                /\ \A d \in Callers \ {c} :
                      call'[d].pc = call[d].pc /\ ret'.caller # d
                /\ (zbproxy_process' # zbproxy_process
                       => call'[c].pc # call[c].pc)
          /\ start_spawn(c) /\ zbproxy_process' # 0 => Managed = {}]_vars

\* c1 is between its spawn and its liveness re-check; c2's Restart() has
\* stopped and waits to start
C16_Witness ==
    /\ call["c1"].pc = "start_recheck" /\ process_lock = "c1"
    /\ TrackedAlive
    /\ call["c2"].pc = "restart_sleep"

\* C17: Restart() does not hold the lock between its stop and its start: the
\* tracked process is never alive when the stop step hands over to the sleep,
\* the lock is not Restart's while it sleeps, and another caller's Start() can
\* spawn meanwhile.  When the start step then finds a tracked process alive,
\* it fails with AlreadyRunning, Restart() reports failure and spawns nothing,
\* and the one process of the supervisor that runs is the other caller's.
C17_RestartGap ==
    [][\A c \in Callers :
          /\ call'[c].pc = "restart_sleep" /\ call[c].pc # "restart_sleep"
                => ~TrackedAlive' /\ process_lock' = "free"
          /\ call[c].pc = "restart_sleep" => process_lock # c
          /\ RestartStart(c) /\ TrackedAlive =>
                /\ ReturnsTo(c, "restart")
                /\ ~ret'.ok /\ ret'.kind = "AlreadyRunning"
                /\ zbproxy_process' = zbproxy_process /\ HostUntouched
                /\ Managed' = {zbproxy_process}]_vars

\* c1's Restart() failed on the instance the only spawn so far, made by
\* another caller while c1 slept, had started
C17_Witness ==
    /\ ret.caller = "c1" /\ ret.op = "restart" /\ ret.kind = "AlreadyRunning"
    /\ spawnAttempts = 1
    /\ TrackedAlive /\ Managed = {zbproxy_process}

\* C19: when the spawned process has exited by the re-check, Start() fails with
\* LaunchFailed; and after every Start() that fails once it has reached the
\* spawn, the tracked reference is none.
C19_LaunchFailed ==
    [][\A c \in Callers :
          /\ start_recheck(c) /\ ~TrackedAlive =>
                /\ ReturnsTo(c, call[c].op)
                /\ ~ret'.ok /\ ret'.kind = "LaunchFailed"
                /\ process_lock' = "free"
          /\ call[c].pc \in {"start_spawn", "start_recheck"}
                /\ ret'.caller = c /\ ~ret'.ok
                => zbproxy_process' = 0]_vars

\* the first spawn exited within the wait
C19_Witness ==
    /\ ret.op = "start" /\ ret.kind = "LaunchFailed"
    /\ spawnAttempts = 1 /\ nextPid = 2
    /\ procs[1] = Exited
    /\ zbproxy_process = 0

\* C20: after every Stop() that returns, the tracked reference is none.
C20_StopClears == ret.op = "stop" /\ ~ret.raised => zbproxy_process = 0

\* C21: after a Status() that reports anything but Running(owned) the tracked
\* reference is none, whether an external process was found or nothing was;
\* a Status() that finds the tracked process alive reports Running(owned) and
\* leaves the reference.
C21_StatusClears ==
    [][\A c \in Callers :
          get_status(c) =>
              /\ ret'.kind # "running" => zbproxy_process' = 0
              /\ TrackedAlive => /\ ret'.kind = "running"
                                 /\ zbproxy_process' = zbproxy_process]_vars

\* Status() found nothing running and cleared the reference to the first
\* spawn, which had exited with its log handle still held
C21_Witness ==
    /\ ret.op = "status" /\ ret.kind = "stopped"
    /\ spawnAttempts = 1 /\ openLogs = 1
    /\ procs[1] = Exited
    /\ zbproxy_process = 0

Has(seq, x) == \E i \in 1..Len(seq) : seq[i] = x

\* C22: Stop() escalates in order.  A process receives SIGKILL only from a
\* Stop() that waits for it, while it is still running and after it received
\* SIGTERM; SIGTERM goes to a running process that the Stop() polled or
\* found; no process holds a SIGKILL without an earlier SIGTERM.  The tracked
\* process and an external one alike.
C22_Escalation ==
    [][\A p \in Pids :
          /\ Has(procs'[p].sigs, "KILL") /\ ~Has(procs[p].sigs, "KILL") =>
                /\ IsRunning(p)
                /\ procs[p].sigs = <<"TERM">>
                /\ \E c \in Callers :
                      \/ call[c].pc = "stop_wait" /\ zbproxy_process = p
                      \/ call[c].pc = "stop_extwait" /\ call[c].proc = p
          /\ Has(procs'[p].sigs, "TERM") /\ ~Has(procs[p].sigs, "TERM") =>
                /\ IsRunning(p)
                /\ procs[p].sigs = <<>>
                /\ \E c \in Callers :
                      \/ call[c].pc = "idle" /\ call'[c].pc = "stop_wait"
                            /\ zbproxy_process = p
                      \/ call[c].pc = "stop_terminate" /\ call[c].proc = p
          /\ procs'[p].sigs \in {<<>>, <<"TERM">>, <<"TERM", "KILL">>}]_vars

\* the tracked process outlived the timeout and was killed; Stop() waits
C22_Witness ==
    /\ \E c \in Callers : call[c].op = "stop" /\ call[c].pc = "stop_killwait"
    /\ TrackedAlive
    /\ procs[zbproxy_process].sigs = <<"TERM", "KILL">>

\* C23: every lifecycle operation terminates: a caller inside the body of an
\* operation eventually leaves it, releasing the lock, whatever the processes
\* do.
C23_Terminates == \A c \in Callers : InBody(c) ~> ~InBody(c)

\* C24: every pid in the list a Stop() returns names a process that is no
\* longer running, no pid is listed twice, and the external process this
\* Stop() signalled is listed if it has terminated.
C24_StoppedList ==
    [][\A c \in Callers :
          call[c].op = "stop" /\ ReturnsTo(c, "stop") /\ ~ret'.raised =>
              /\ \A i \in 1..Len(ret'.stopped) :
                    procs'[ret'.stopped[i]].state # "running"
              /\ \A i, j \in 1..Len(ret'.stopped) :
                    i # j => ret'.stopped[i] # ret'.stopped[j]
              /\ call[c].pc = "stop_extwait"
                    /\ procs'[call[c].proc].state = "exited"
                    => Has(ret'.stopped, call[c].proc)]_vars

\* C28: the lock is held only by a caller inside a body, and such a caller
\* can take its next step unless it waits for a killed process to exit; the
\* lock is taken only when it is free, by a caller outside every body; and
\* whenever an operation returns or fails the lock is free.  Restart() holds
\* no lock while it sleeps.
C28_LockDiscipline ==
    [][\A c \in Callers :
          /\ process_lock = c =>
                /\ InBody(c)
                /\ call[c].pc # "stop_killwait" => ENABLED BodyStep(c)
          /\ InBody(c) => process_lock = c
          /\ process_lock' = c /\ process_lock # c =>
                process_lock = "free" /\ ~InBody(c) /\ InBody(c)'
          /\ ret'.caller = c => process_lock' = "free"
          /\ call'[c].pc \in {"idle", "restart_sleep"} => process_lock' # c]_vars

\* a Stop() has failed with an exception and the lock is free
C28_Witness ==
    /\ ret.op = "stop" /\ ret.raised
    /\ process_lock = "free"
    /\ \A c \in Callers : call[c].pc = "idle"

\* C29: no out.log handle leaks: at most one is open, and none when the
\* tracked reference is none.
C29_NoLogLeak == openLogs <= 1 /\ (zbproxy_process = 0 => openLogs = 0)

====
